---- MODULE Spec2Model ----
(***************************************************************************)
(* evilquest_stats (src/main.go): a walker goroutine (analyseFolder), an   *)
(* optional pool of worker goroutines, a signal goroutine                  *)
(* (setupCloseHandler) and the main goroutine, sharing the two frequency   *)
(* maps, the unbuffered tasks channel, two WaitGroups and the interrupted  *)
(* flag.  One action per statement group of the source; every goroutine    *)
(* stops when the process exits.                                           *)
(***************************************************************************)
EXTENDS Integers, Sequences, FiniteSets, TLC

\* ------------------------------------------------------------- bounds
MaxEntries == 3
MaxJobs == 2
NumDigests == 1

\* ------------------------------------------------ program constants
fileSize == 172792
OtherSize == fileSize + 1

\* a section lookup that returned nil, and a section whose Read failed
NoSection == 0
BadRead == 0 - 1

Digests == 1 .. NumDigests
Regions == {NoSection, BadRead} \cup Digests
Workers == 1 .. MaxJobs
Walker == 0
Agents == {Walker} \cup Workers
FileIdx == 1 .. (MaxEntries + 1)

\* ------------------------------------------------------- the corpus
\* One record per entry the walk visits, in walk order.
ErrEntry == [err |-> TRUE, regular |-> TRUE, size |-> fileSize,
             bin |-> "macho", code |-> 1, str |-> 1]
DirEntry == [err |-> FALSE, regular |-> FALSE, size |-> fileSize,
             bin |-> "nomacho", code |-> NoSection, str |-> NoSection]
WrongSizeEntry == [err |-> FALSE, regular |-> TRUE, size |-> OtherSize,
                   bin |-> "macho", code |-> 1, str |-> 1]
NoOpenEntry == [err |-> FALSE, regular |-> TRUE, size |-> fileSize,
                bin |-> "noopen", code |-> NoSection, str |-> NoSection]
NoMachoEntry == [err |-> FALSE, regular |-> TRUE, size |-> fileSize,
                 bin |-> "nomacho", code |-> NoSection, str |-> NoSection]
MachoEntries == {[err |-> FALSE, regular |-> TRUE, size |-> fileSize,
                  bin |-> "macho", code |-> c, str |-> s] :
                  c \in Regions, s \in Regions}
Entries == {ErrEntry, DirEntry, WrongSizeEntry, NoOpenEntry, NoMachoEntry}
             \cup MachoEntries
\* filepath.Walk always visits the root; only a root that is a directory has
\* further entries.
Corpora ==
  [1 .. 1 -> Entries] \cup
  UNION {{<<DirEntry>> \o t : t \in [1 .. n -> Entries]} : n \in 1 .. (MaxEntries - 1)}

\* A directory of MaxEntries plain candidates: enough files to keep every
\* worker busy with one more waiting to be sent.
PlainEntries ==
  {NoMachoEntry,
   [err |-> FALSE, regular |-> TRUE, size |-> fileSize, bin |-> "macho", code |-> 1, str |-> 1]}
DeepCorpora == {<<DirEntry>> \o t : t \in [1 .. MaxEntries -> PlainEntries]}

ZeroTable == [d \in Digests |-> 0]
ZeroCount == [f \in FileIdx |-> 0]

VARIABLES
  input,          \* whether -i named a root path
  jobs,           \* -n
  corpus,         \* the tree, as the sequence of entries filepath.Walk visits
  mainPc, sigPc, folderPc,
  idx,            \* the entry the current walk is at
  apc,            \* per agent: worker loop / analyseBinary position
  afile,          \* per agent: the entry being analysed
  atmp,           \* per agent: the count read by m[k]++ before it is written back
  totalWork, progress,
  jobGroup, mainGroup,
  codeHashes, cstringHashes,
  mapMutex,       \* TRUE while held
  closed,         \* tasks has been closed
  closes,         \* history: the close(tasks) calls made
  interrupted,
  exitStatus,     \* "running", "exit0", "exit1", "fatal"
  repCode,        \* per reporter: the __text table as it printed it
  reports,        \* the completed showResults calls, in order
  started, finished,   \* history: analyseBinary calls begun / returned, per entry
  recvBy,         \* history: the workers that received each entry from tasks
  exCode, exStr,  \* history: regions read successfully, per digest
  atSet           \* history: the tables and the activity when the flag was set

vars == <<input, jobs, corpus, mainPc, sigPc, folderPc, idx, apc, afile, atmp,
          totalWork, progress, jobGroup, mainGroup, codeHashes, cstringHashes,
          mapMutex, closed, closes, interrupted, exitStatus, repCode, reports,
          started, finished, recvBy, exCode, exStr, atSet>>

Reporters == {"sig", "folder"}
AnalysisPcs == {"open", "parse", "text", "lockC", "incC", "cstring", "lockS", "incS"}

Running == exitStatus = "running"
InProgress(g) == apc[g] \in AnalysisPcs
AnyInProgress == \E g \in Agents : InProgress(g)

\* info.Mode().IsRegular() && info.Size() == fileSize
IsCandidate(e) == e.regular /\ e.size = fileSize

InitRest ==
  /\ input \in BOOLEAN
  /\ jobs \in 1 .. MaxJobs
  /\ mainPc = "parse"
  /\ sigPc = "recv"
  /\ folderPc = "idle"
  /\ idx = 1
  /\ apc = [g \in Agents |-> IF g = Walker THEN "idle" ELSE "off"]
  /\ afile = [g \in Agents |-> 1]
  /\ atmp = [g \in Agents |-> 0]
  /\ totalWork = 0
  /\ progress = 0
  /\ jobGroup = 0
  /\ mainGroup = 0
  /\ codeHashes = ZeroTable
  /\ cstringHashes = ZeroTable
  /\ mapMutex = FALSE
  /\ closed = FALSE
  /\ closes = 0
  /\ interrupted = FALSE
  /\ exitStatus = "running"
  /\ repCode = [r \in Reporters |-> ZeroTable]
  /\ reports = <<>>
  /\ started = ZeroCount
  /\ finished = ZeroCount
  /\ recvBy = [f \in FileIdx |-> {}]
  /\ exCode = ZeroTable
  /\ exStr = ZeroTable
  /\ atSet = [set |-> FALSE, quiet |-> FALSE, code |-> ZeroTable, cstr |-> ZeroTable]

Init == corpus \in Corpora /\ InitRest
DeepInit == corpus \in DeepCorpora /\ InitRest

\* ------------------------------------------------------------- frames
MainVars == <<mainPc, mainGroup>>
SigVars == <<sigPc, interrupted, atSet>>
WalkVars == <<folderPc, idx, totalWork, closed, closes>>
AgentVars == <<apc, afile, atmp>>
TableVars == <<codeHashes, cstringHashes, mapMutex>>
ReportVars == <<repCode, reports>>
HistVars == <<started, finished, recvBy, exCode, exStr>>
ConfVars == <<input, jobs, corpus>>

\* ------------------------------------------------------------- main
\* if input == "" (the banner and flag.Parse come first)
MainCheck ==
  /\ Running /\ mainPc = "parse"
  /\ mainPc' = IF input THEN "spawn" ELSE "usage"
  /\ UNCHANGED <<mainGroup, SigVars, WalkVars, AgentVars, TableVars, ReportVars,
                 HistVars, ConfVars, progress, jobGroup, exitStatus>>

\* the usage text, then os.Exit(1)
MainUsage ==
  /\ Running /\ mainPc = "usage"
  /\ exitStatus' = "exit1"
  /\ UNCHANGED <<MainVars, SigVars, WalkVars, AgentVars, TableVars, ReportVars,
                 HistVars, ConfVars, progress, jobGroup>>

\* mainGroup.Add(1); go analyseFolder(input, jobs)
MainSpawn ==
  /\ Running /\ mainPc = "spawn"
  /\ mainGroup' = mainGroup + 1
  /\ mainPc' = "wait"
  /\ folderPc' = "count"
  /\ idx' = 1
  /\ UNCHANGED <<totalWork, closed, closes, SigVars, AgentVars, TableVars, ReportVars,
                 HistVars, ConfVars, progress, jobGroup, exitStatus>>

\* mainGroup.Wait() returns and main returns: the process ends with status 0
MainReturn ==
  /\ Running /\ mainPc = "wait" /\ mainGroup = 0
  /\ exitStatus' = "exit0"
  /\ UNCHANGED <<MainVars, SigVars, WalkVars, AgentVars, TableVars, ReportVars,
                 HistVars, ConfVars, progress, jobGroup>>

\* ------------------------------------------------- signal goroutine
\* <-c returns: an interrupt or SIGTERM was delivered; the message is printed
Interrupt ==
  /\ Running /\ sigPc = "recv"
  /\ sigPc' = "set"
  /\ UNCHANGED <<interrupted, atSet, MainVars, WalkVars, AgentVars, TableVars,
                 ReportVars, HistVars, ConfVars, progress, jobGroup, exitStatus>>

\* interrupted = true.  The flag is a plain bool read by the walker without
\* synchronisation; a read returns the value before or after this write,
\* which the interleaving of SigSet with WalkEntry covers.
SigSet ==
  /\ Running /\ sigPc = "set"
  /\ interrupted' = TRUE
  /\ sigPc' = "wait"
  /\ atSet' = [set |-> TRUE, quiet |-> ~AnyInProgress,
               code |-> codeHashes, cstr |-> cstringHashes]
  /\ UNCHANGED <<MainVars, WalkVars, AgentVars, TableVars, ReportVars, HistVars,
                 ConfVars, progress, jobGroup, exitStatus>>

\* the signal goroutine without its jobGroup.Wait()
SigWait_NoWait ==
  /\ Running /\ sigPc = "wait"
  /\ sigPc' = "show1"
  /\ UNCHANGED <<interrupted, atSet, MainVars, WalkVars, AgentVars, TableVars,
                 ReportVars, HistVars, ConfVars, progress, jobGroup, exitStatus>>

\* jobGroup.Wait()
SigWait ==
  /\ Running /\ sigPc = "wait"
  /\ jobGroup = 0
  /\ sigPc' = "show1"
  /\ UNCHANGED <<interrupted, atSet, MainVars, WalkVars, AgentVars, TableVars,
                 ReportVars, HistVars, ConfVars, progress, jobGroup, exitStatus>>

\* os.Exit(0)
SigExit ==
  /\ Running /\ sigPc = "exit"
  /\ exitStatus' = "exit0"
  /\ UNCHANGED <<MainVars, SigVars, WalkVars, AgentVars, TableVars, ReportVars,
                 HistVars, ConfVars, progress, jobGroup>>

\* ------------------------------------------------------ showResults
ReporterPc(r) == IF r = "sig" THEN sigPc ELSE folderPc

\* for k, v := range codeHashes
ShowText(r) ==
  /\ Running /\ ReporterPc(r) = "show1"
  /\ repCode' = [repCode EXCEPT ![r] = codeHashes]
  /\ IF r = "sig"
       THEN sigPc' = "show2" /\ UNCHANGED folderPc
       ELSE folderPc' = "show2" /\ UNCHANGED sigPc
  /\ UNCHANGED <<reports, interrupted, atSet, idx, totalWork, closed, closes, MainVars,
                 AgentVars, TableVars, HistVars, ConfVars, progress, jobGroup,
                 exitStatus>>

\* for k, v := range cstringHashes, and showResults returns
ShowCString(r) ==
  /\ Running /\ ReporterPc(r) = "show2"
  /\ reports' = Append(reports, [by |-> r, code |-> repCode[r], cstr |-> cstringHashes])
  /\ IF r = "sig"
       THEN sigPc' = "exit" /\ UNCHANGED folderPc
       ELSE folderPc' = "done" /\ UNCHANGED sigPc
  /\ UNCHANGED <<repCode, interrupted, atSet, idx, totalWork, closed, closes, MainVars,
                 AgentVars, TableVars, HistVars, ConfVars, progress, jobGroup,
                 exitStatus>>

\* showResults takes no lock: a range over a map while another goroutine is
\* inside m[k]++ on that map is a data race, which the Go runtime may detect
\* and end the process ("fatal error: concurrent map iteration and map
\* write", status 2) instead of completing the iteration.
MapFatal(r) ==
  /\ Running
  /\ \/ ReporterPc(r) = "show1" /\ \E g \in Agents : apc[g] = "incC"
     \/ ReporterPc(r) = "show2" /\ \E g \in Agents : apc[g] = "incS"
  /\ exitStatus' = "fatal"
  /\ UNCHANGED <<MainVars, SigVars, WalkVars, AgentVars, TableVars, ReportVars,
                 HistVars, ConfVars, progress, jobGroup>>

\* ----------------------------------------------------- analyseFolder
AtEntry == idx <= Len(corpus)

\* the counting callback without its err != nil test
CountEntry_IgnoreErr ==
  /\ Running /\ folderPc = "count" /\ AtEntry
  /\ totalWork' = IF IsCandidate(corpus[idx]) THEN totalWork + 1 ELSE totalWork
  /\ idx' = idx + 1
  /\ UNCHANGED <<folderPc, closed, closes, MainVars, SigVars, AgentVars, TableVars,
                 ReportVars, HistVars, ConfVars, progress, jobGroup, exitStatus>>

\* the counting walk's callback on one entry
CountEntry ==
  /\ Running /\ folderPc = "count" /\ AtEntry
  /\ totalWork' = IF ~corpus[idx].err /\ IsCandidate(corpus[idx])
                    THEN totalWork + 1 ELSE totalWork
  /\ idx' = idx + 1
  /\ UNCHANGED <<folderPc, closed, closes, MainVars, SigVars, AgentVars, TableVars,
                 ReportVars, HistVars, ConfVars, progress, jobGroup, exitStatus>>

\* the counting walk is over: the bar is made and, if jobs > 1,
\* jobGroup.Add(jobs) and the worker goroutines are started
StartPool ==
  /\ Running /\ folderPc = "count" /\ ~AtEntry
  /\ IF jobs > 1
       THEN /\ jobGroup' = jobGroup + jobs
            /\ apc' = [g \in Agents |-> IF g \in 1 .. jobs THEN "recv" ELSE apc[g]]
       ELSE UNCHANGED <<jobGroup, apc>>
  /\ folderPc' = "walk"
  /\ idx' = 1
  /\ UNCHANGED <<totalWork, closed, closes, afile, atmp, MainVars, SigVars, TableVars,
                 ReportVars, HistVars, ConfVars, progress, exitStatus>>

\* the dispatch callback returning the traversal error instead of nil: the
\* walk ends at the entry that failed
WalkEntry_ErrStops ==
  /\ Running /\ folderPc = "walk" /\ AtEntry
  /\ IF corpus[idx].err
       THEN folderPc' = "finish" /\ UNCHANGED idx
       ELSE IF interrupted
         THEN folderPc' = "stop" /\ UNCHANGED idx
         ELSE IF IsCandidate(corpus[idx])
           THEN folderPc' = "dispatch" /\ UNCHANGED idx
           ELSE idx' = idx + 1 /\ UNCHANGED folderPc
  /\ UNCHANGED <<totalWork, closed, closes, MainVars, SigVars, AgentVars, TableVars,
                 ReportVars, HistVars, ConfVars, progress, jobGroup, exitStatus>>

\* the dispatch walk's callback on one entry, up to the candidate test
WalkEntry ==
  /\ Running /\ folderPc = "walk" /\ AtEntry
  /\ IF corpus[idx].err
       THEN idx' = idx + 1 /\ UNCHANGED folderPc
       ELSE IF interrupted
         THEN folderPc' = "stop" /\ UNCHANGED idx
         ELSE IF IsCandidate(corpus[idx])
           THEN folderPc' = "dispatch" /\ UNCHANGED idx
           ELSE idx' = idx + 1 /\ UNCHANGED folderPc
  /\ UNCHANGED <<totalWork, closed, closes, MainVars, SigVars, AgentVars, TableVars,
                 ReportVars, HistVars, ConfVars, progress, jobGroup, exitStatus>>

\* tasks <- path on a buffered channel: the send completes with no receiver
Send_Buffered ==
  /\ Running /\ folderPc = "dispatch" /\ jobs > 1
  /\ started' = [started EXCEPT ![idx] = @ + 1]
  /\ folderPc' = "walk"
  /\ idx' = idx + 1
  /\ UNCHANGED <<totalWork, closed, closes, AgentVars, finished, recvBy, exCode,
                 exStr, MainVars, SigVars, TableVars, ReportVars, ConfVars,
                 progress, jobGroup, exitStatus>>

\* tasks <- path: the send completes together with one worker's receive
Send ==
  /\ Running /\ folderPc = "dispatch" /\ jobs > 1
  /\ \E w \in Workers :
       /\ apc[w] = "recv"
       /\ apc' = [apc EXCEPT ![w] = "open"]
       /\ afile' = [afile EXCEPT ![w] = idx]
       /\ recvBy' = [recvBy EXCEPT ![idx] = @ \cup {w}]
  /\ started' = [started EXCEPT ![idx] = @ + 1]
  /\ folderPc' = "walk"
  /\ idx' = idx + 1
  /\ UNCHANGED <<totalWork, closed, closes, atmp, finished, exCode, exStr, MainVars,
                 SigVars, TableVars, ReportVars, ConfVars, progress, jobGroup,
                 exitStatus>>

\* jobs == 1: analyseBinary(path) is called in the callback
InlineStart ==
  /\ Running /\ folderPc = "dispatch" /\ ~(jobs > 1)
  /\ apc' = [apc EXCEPT ![Walker] = "open"]
  /\ afile' = [afile EXCEPT ![Walker] = idx]
  /\ started' = [started EXCEPT ![idx] = @ + 1]
  /\ folderPc' = "inline"
  /\ UNCHANGED <<idx, totalWork, closed, closes, atmp, finished, recvBy, exCode, exStr,
                 MainVars, SigVars, TableVars, ReportVars, ConfVars, progress,
                 jobGroup, exitStatus>>

\* the walk returned nil: err == io.EOF is false
WalkEnd ==
  /\ Running /\ folderPc = "walk" /\ ~AtEntry
  /\ folderPc' = "finish"
  /\ UNCHANGED <<idx, totalWork, closed, closes, MainVars, SigVars, AgentVars, TableVars,
                 ReportVars, HistVars, ConfVars, progress, jobGroup, exitStatus>>

\* the io.EOF branch without its close(tasks)
FolderStop_NoClose ==
  /\ Running /\ folderPc = "stop"
  /\ folderPc' = "returned"
  /\ UNCHANGED <<idx, totalWork, closed, closes, MainVars, SigVars, AgentVars,
                 TableVars, ReportVars, HistVars, ConfVars, progress, jobGroup,
                 exitStatus>>

\* the io.EOF branch without its return: it falls through to the normal path
FolderStop_NoReturn ==
  /\ Running /\ folderPc = "stop"
  /\ closed' = TRUE
  /\ closes' = closes + 1
  /\ folderPc' = "finish"
  /\ UNCHANGED <<idx, totalWork, MainVars, SigVars, AgentVars, TableVars,
                 ReportVars, HistVars, ConfVars, progress, jobGroup, exitStatus>>

\* the early return clearing the flag it has consumed
FolderStop_ResetFlag ==
  /\ Running /\ folderPc = "stop"
  /\ closed' = TRUE
  /\ closes' = closes + 1
  /\ folderPc' = "returned"
  /\ interrupted' = FALSE
  /\ UNCHANGED <<idx, totalWork, sigPc, atSet, MainVars, AgentVars, TableVars,
                 ReportVars, HistVars, ConfVars, progress, jobGroup, exitStatus>>

\* the early return with mainGroup.Done() deferred, so that it runs on this
\* path too
FolderStop_DeferDone ==
  /\ Running /\ folderPc = "stop"
  /\ closed' = TRUE
  /\ closes' = closes + 1
  /\ folderPc' = "returned"
  /\ mainGroup' = mainGroup - 1
  /\ UNCHANGED <<idx, totalWork, mainPc, SigVars, AgentVars, TableVars,
                 ReportVars, HistVars, ConfVars, progress, jobGroup, exitStatus>>

\* the callback returned io.EOF: close(tasks); return (no mainGroup.Done)
FolderStop ==
  /\ Running /\ folderPc = "stop"
  /\ closed' = TRUE
  /\ closes' = closes + 1
  /\ folderPc' = "returned"
  /\ UNCHANGED <<idx, totalWork, MainVars, SigVars, AgentVars, TableVars,
                 ReportVars, HistVars, ConfVars, progress, jobGroup, exitStatus>>

\* if jobs > 1 { close(tasks) ... }
FolderClose ==
  /\ Running /\ folderPc = "finish"
  /\ IF jobs > 1
       THEN closed' = TRUE /\ closes' = closes + 1 /\ folderPc' = "join"
       ELSE UNCHANGED <<closed, closes>> /\ folderPc' = "show1"
  /\ UNCHANGED <<idx, totalWork, MainVars, SigVars, AgentVars, TableVars,
                 ReportVars, HistVars, ConfVars, progress, jobGroup, exitStatus>>

\* jobGroup.Wait()
FolderJoin ==
  /\ Running /\ folderPc = "join"
  /\ jobGroup = 0
  /\ folderPc' = "show1"
  /\ UNCHANGED <<idx, totalWork, closed, closes, MainVars, SigVars, AgentVars, TableVars,
                 ReportVars, HistVars, ConfVars, progress, jobGroup, exitStatus>>

\* mainGroup.Done()
FolderDone ==
  /\ Running /\ folderPc = "done"
  /\ mainGroup' = mainGroup - 1
  /\ folderPc' = "finished"
  /\ UNCHANGED <<mainPc, idx, totalWork, closed, closes, SigVars, AgentVars, TableVars,
                 ReportVars, HistVars, ConfVars, progress, jobGroup, exitStatus>>

\* ------------------------------------------------------------ workers
\* path, ok := <-tasks with the channel closed: return, and the deferred
\* jobGroup.Done()
WorkerExit(w) ==
  /\ Running /\ apc[w] = "recv" /\ closed
  /\ apc' = [apc EXCEPT ![w] = "exited"]
  /\ jobGroup' = jobGroup - 1
  /\ UNCHANGED <<afile, atmp, MainVars, SigVars, WalkVars, TableVars, ReportVars,
                 HistVars, ConfVars, progress, exitStatus>>

\* bar.Add(1) after analyseBinary returned; a worker loops to the receive,
\* the inline walker returns nil from the callback
BarAdd(g) ==
  /\ Running /\ apc[g] = "bar"
  /\ progress' = progress + 1
  /\ IF g = Walker
       THEN /\ apc' = [apc EXCEPT ![g] = "idle"]
            /\ folderPc' = "walk"
            /\ idx' = idx + 1
       ELSE /\ apc' = [apc EXCEPT ![g] = "recv"]
            /\ UNCHANGED <<folderPc, idx>>
  /\ UNCHANGED <<totalWork, closed, closes, afile, atmp, MainVars, SigVars, TableVars,
                 ReportVars, HistVars, ConfVars, jobGroup, exitStatus>>

\* ------------------------------------------------------ analyseBinary
File(g) == corpus[afile[g]]

\* a return of analyseBinary
Return(g) ==
  /\ apc' = [apc EXCEPT ![g] = "bar"]
  /\ finished' = [finished EXCEPT ![afile[g]] = @ + 1]

Goto(g, pc) ==
  /\ apc' = [apc EXCEPT ![g] = pc]
  /\ UNCHANGED finished

\* os.Open(path)
Open(g) ==
  /\ Running /\ apc[g] = "open"
  /\ IF File(g).bin = "noopen" THEN Return(g) ELSE Goto(g, "parse")
  /\ UNCHANGED <<afile, atmp, started, recvBy, exCode, exStr, MainVars, SigVars,
                 WalkVars, TableVars, ReportVars, ConfVars, progress, jobGroup,
                 exitStatus>>

\* macho.NewFile(r) with its error ignored
Parse_IgnoreError(g) ==
  /\ Running /\ apc[g] = "parse"
  /\ Goto(g, "text")
  /\ UNCHANGED <<afile, atmp, started, recvBy, exCode, exStr, MainVars, SigVars,
                 WalkVars, TableVars, ReportVars, ConfVars, progress, jobGroup,
                 exitStatus>>

\* macho.NewFile(r)
Parse(g) ==
  /\ Running /\ apc[g] = "parse"
  /\ IF File(g).bin = "nomacho" THEN Return(g) ELSE Goto(g, "text")
  /\ UNCHANGED <<afile, atmp, started, recvBy, exCode, exStr, MainVars, SigVars,
                 WalkVars, TableVars, ReportVars, ConfVars, progress, jobGroup,
                 exitStatus>>

\* the __text block with its read error ignored: the call goes on to the
\* __cstring block
Text_ContinueOnBadRead(g) ==
  /\ Running /\ apc[g] = "text"
  /\ IF File(g).code \in {NoSection, BadRead}
       THEN Goto(g, "cstring") /\ UNCHANGED exCode
       ELSE /\ Goto(g, "lockC")
            /\ exCode' = [exCode EXCEPT ![File(g).code] = @ + 1]
  /\ UNCHANGED <<afile, atmp, started, recvBy, exStr, MainVars, SigVars,
                 WalkVars, TableVars, ReportVars, ConfVars, progress, jobGroup,
                 exitStatus>>

\* machoFile.Section("__text"), the read and the digest
Text(g) ==
  /\ Running /\ apc[g] = "text"
  /\ IF File(g).code = NoSection
       THEN Goto(g, "cstring") /\ UNCHANGED exCode
       ELSE IF File(g).code = BadRead
         THEN Return(g) /\ UNCHANGED exCode
         ELSE /\ Goto(g, "lockC")
              /\ exCode' = [exCode EXCEPT ![File(g).code] = @ + 1]
  /\ UNCHANGED <<afile, atmp, started, recvBy, exStr, MainVars, SigVars,
                 WalkVars, TableVars, ReportVars, ConfVars, progress, jobGroup,
                 exitStatus>>

\* the read half of codeHashes[hash]++ without mapMutex.Lock()
LockCode_NoMutex(g) ==
  /\ Running /\ apc[g] = "lockC"
  /\ mapMutex' = TRUE
  /\ atmp' = [atmp EXCEPT ![g] = codeHashes[File(g).code]]
  /\ apc' = [apc EXCEPT ![g] = "incC"]
  /\ UNCHANGED <<afile, codeHashes, cstringHashes, HistVars, MainVars, SigVars,
                 WalkVars, ReportVars, ConfVars, progress, jobGroup, exitStatus>>

\* mapMutex.Lock() and the read half of codeHashes[hash]++
LockCode(g) ==
  /\ Running /\ apc[g] = "lockC"
  /\ ~mapMutex
  /\ mapMutex' = TRUE
  /\ atmp' = [atmp EXCEPT ![g] = codeHashes[File(g).code]]
  /\ apc' = [apc EXCEPT ![g] = "incC"]
  /\ UNCHANGED <<afile, codeHashes, cstringHashes, HistVars, MainVars, SigVars,
                 WalkVars, ReportVars, ConfVars, progress, jobGroup, exitStatus>>

\* the write half of codeHashes[hash]++ and mapMutex.Unlock()
IncCode(g) ==
  /\ Running /\ apc[g] = "incC"
  /\ codeHashes' = [codeHashes EXCEPT ![File(g).code] = atmp[g] + 1]
  /\ mapMutex' = FALSE
  /\ apc' = [apc EXCEPT ![g] = "cstring"]
  /\ UNCHANGED <<afile, atmp, cstringHashes, HistVars, MainVars, SigVars,
                 WalkVars, ReportVars, ConfVars, progress, jobGroup, exitStatus>>

\* machoFile.Section("__cstring"), the read and the digest
CString(g) ==
  /\ Running /\ apc[g] = "cstring"
  /\ IF File(g).str \in Digests
       THEN /\ Goto(g, "lockS")
            /\ exStr' = [exStr EXCEPT ![File(g).str] = @ + 1]
       ELSE Return(g) /\ UNCHANGED exStr
  /\ UNCHANGED <<afile, atmp, started, recvBy, exCode, MainVars, SigVars,
                 WalkVars, TableVars, ReportVars, ConfVars, progress, jobGroup,
                 exitStatus>>

\* mapMutex.Lock() and the read half of cstringHashes[hash]++
LockCString(g) ==
  /\ Running /\ apc[g] = "lockS"
  /\ ~mapMutex
  /\ mapMutex' = TRUE
  /\ atmp' = [atmp EXCEPT ![g] = cstringHashes[File(g).str]]
  /\ apc' = [apc EXCEPT ![g] = "incS"]
  /\ UNCHANGED <<afile, codeHashes, cstringHashes, HistVars, MainVars, SigVars,
                 WalkVars, ReportVars, ConfVars, progress, jobGroup, exitStatus>>

\* the write half of cstringHashes[hash]++, mapMutex.Unlock() and the return
IncCString(g) ==
  /\ Running /\ apc[g] = "incS"
  /\ cstringHashes' = [cstringHashes EXCEPT ![File(g).str] = atmp[g] + 1]
  /\ mapMutex' = FALSE
  /\ Return(g)
  /\ UNCHANGED <<afile, atmp, codeHashes, started, recvBy, exCode, exStr, MainVars,
                 SigVars, WalkVars, ReportVars, ConfVars, progress, jobGroup,
                 exitStatus>>

\* ---------------------------------------------------------- the system
Analyse(g) ==
  \/ Open(g) \/ Parse(g) \/ Text(g) \/ LockCode(g) \/ IncCode(g)
  \/ CString(g) \/ LockCString(g) \/ IncCString(g) \/ BarAdd(g)

ProgramStep ==
  \/ MainCheck \/ MainUsage \/ MainSpawn \/ MainReturn
  \/ SigSet \/ SigWait \/ SigExit
  \/ \E r \in Reporters : ShowText(r) \/ ShowCString(r) \/ MapFatal(r)
  \/ CountEntry \/ StartPool \/ WalkEntry \/ Send \/ InlineStart \/ WalkEnd
  \/ FolderStop \/ FolderClose \/ FolderJoin \/ FolderDone
  \/ \E w \in Workers : WorkerExit(w)
  \/ \E g \in Agents : Analyse(g)

Next == Interrupt \/ ProgramStep

Spec == Init /\ [][Next]_vars

\* the same program on the deeper, plainer trees
DeepSpec == DeepInit /\ [][Next]_vars

\* every goroutine that can run eventually runs; the signal itself is the
\* environment's and need never arrive
FairSpec == Spec /\ WF_vars(ProgramStep)

TypeOK ==
  /\ input \in BOOLEAN /\ jobs \in 1 .. MaxJobs /\ corpus \in Corpora \cup DeepCorpora
  /\ mainPc \in {"parse", "usage", "spawn", "wait"}
  /\ sigPc \in {"recv", "set", "wait", "show1", "show2", "exit"}
  /\ folderPc \in {"idle", "count", "walk", "dispatch", "inline", "stop", "returned",
                   "finish", "join", "show1", "show2", "done", "finished"}
  /\ apc \in [Agents -> AnalysisPcs \cup {"idle", "off", "recv", "bar", "exited"}]
  /\ exitStatus \in {"running", "exit0", "exit1", "fatal"}
  /\ jobGroup \in 0 .. MaxJobs /\ mainGroup \in 0 .. 1
  /\ progress \in 0 .. MaxEntries /\ totalWork \in 0 .. MaxEntries
  /\ closes \in 0 .. 1

\* ============================================================ claims
Exited == exitStatus # "running"
ReportPrinted == Len(reports) >= 1
ShowCalls(r) == IF r = "sig" THEN sigPc \in {"show1", "show2", "exit"}
                ELSE folderPc \in {"show1", "show2", "done", "finished"}
InShow(r) == ReporterPc(r) \in {"show1", "show2"}

\* C1: a run that was given a root path does not end before it has printed
\* the frequency report, whenever the interrupt arrives.
C1_ReportBeforeExit == (input /\ Exited) => ReportPrinted

\* C1, the part that survives: no such run ends with status 0 or 1 before a
\* report was printed; only the runtime's fatal error ends it unreported.
C1_OrderlyExitReported ==
  (input /\ exitStatus \in {"exit0", "exit1"}) => ReportPrinted

\* C1, the liveness half, which holds under FairSpec: every run ends, and a
\* run with a root path ends reported or by the runtime's fatal error.
C1_EventuallyEnds == <>Exited
C1_ReportedOrFatal == input ~> (Exited /\ (ReportPrinted \/ exitStatus = "fatal"))

\* C2: showResults is executed at most once in a run: the signal goroutine
\* and analyseFolder never both print the tables.
C2_AtMostOneReport == ~(ShowCalls("sig") /\ ShowCalls("folder"))

\* C3: showResults never reads the tables while an analyseBinary call is in
\* progress.
C3_NoReportDuringAnalysis == (\E r \in Reporters : InShow(r)) => ~AnyInProgress

\* C4: the process never exits while an analyseBinary call is in progress.
C4_NoExitDuringAnalysis == Exited => ~AnyInProgress

\* What one analyseBinary call adds to each table, read off the entry: the
\* __text digest if the section is there and read; the __cstring digest if
\* moreover the __text read did not fail.  NoSection stands for "nothing".
Dispatched(e) == ~e.err /\ IsCandidate(e)
CodeOutcome(e) ==
  IF Dispatched(e) /\ e.bin = "macho" /\ e.code \in Digests THEN e.code ELSE NoSection
StrOutcome(e) ==
  IF Dispatched(e) /\ e.bin = "macho" /\ e.code # BadRead /\ e.str \in Digests
    THEN e.str ELSE NoSection
ExpectedCode ==
  [d \in Digests |-> Cardinality({i \in 1 .. Len(corpus) : CodeOutcome(corpus[i]) = d})]
ExpectedStr ==
  [d \in Digests |-> Cardinality({i \in 1 .. Len(corpus) : StrOutcome(corpus[i]) = d})]

Uninterrupted == sigPc = "recv"

\* C5: in an uninterrupted run the final tables, and the tables the report
\* prints, are a function of the corpus alone: the same for jobs = 1 and
\* jobs > 1 and under every interleaving of the workers.
C5_TablesFunctionOfCorpus ==
  (Uninterrupted /\ ShowCalls("folder")) =>
     /\ codeHashes = ExpectedCode
     /\ cstringHashes = ExpectedStr
     /\ \A i \in 1 .. Len(reports) :
          reports[i].code = ExpectedCode /\ reports[i].cstr = ExpectedStr

\* two workers each analysed one of two files with the same digests, and the
\* uninterrupted run has printed its report
C5_Witness ==
  /\ Uninterrupted /\ jobs > 1 /\ folderPc = "finished" /\ Len(reports) = 1
  /\ Len(corpus) = 3 /\ recvBy[2] # recvBy[3]
  /\ codeHashes[1] = 2 /\ cstringHashes[1] = 2

\* C6: whenever a report reads a table, every count in it equals the number
\* of regions of that category read successfully so far with that digest.
C6_ExactAccounting ==
  /\ (\E r \in Reporters : ReporterPc(r) = "show1") => codeHashes = exCode
  /\ (\E r \in Reporters : ReporterPc(r) = "show2") => cstringHashes = exStr

\* C6, the part that holds: outside a critical section no increment is lost
\* or doubled.
C6_NoLostIncrement ==
  /\ (\A g \in Agents : apc[g] \notin {"lockC", "incC"}) => codeHashes = exCode
  /\ (\A g \in Agents : apc[g] \notin {"lockS", "incS"}) => cstringHashes = exStr

\* C7: with jobs > 1 every task sent on tasks is received by exactly one
\* worker and analysed exactly once; none is analysed twice and, when the
\* process ends, none is left unanalysed.
C7_EachTaskOnce ==
  jobs > 1 =>
    \A f \in FileIdx :
      /\ started[f] <= 1
      /\ Cardinality(recvBy[f]) = started[f]
      /\ finished[f] <= started[f]
      /\ Exited => finished[f] = started[f]

\* an interrupted run with a pool ended after a task, sent before the close,
\* was analysed by the worker that received it
C7_Witness ==
  /\ jobs > 1 /\ exitStatus = "exit0" /\ interrupted /\ closed
  /\ folderPc = "returned"
  /\ \E f \in FileIdx : finished[f] = 1 /\ recvBy[f] # {}

\* C8: if the flag is set when no analyseBinary call is in progress, every
\* report printed shows the tables as they were at that moment.
C8_ReportIsPrefix ==
  (atSet.set /\ atSet.quiet) =>
    \A i \in 1 .. Len(reports) :
      reports[i].code = atSet.code /\ reports[i].cstr = atSet.cstr

\* C9: analyseBinary on a file that cannot be opened or parsed returns at
\* the failing call, changes neither table and does not end the process;
\* the caller then advances the progress counter and goes on to its next
\* task.
C9_Step ==
  \A g \in Agents :
    /\ (apc[g] = "open" /\ File(g).bin = "noopen" /\ apc'[g] # apc[g]) =>
          /\ apc'[g] = "bar" /\ exitStatus' = exitStatus
          /\ codeHashes' = codeHashes /\ cstringHashes' = cstringHashes
    /\ (apc[g] = "parse" /\ File(g).bin = "nomacho" /\ apc'[g] # apc[g]) =>
          /\ apc'[g] = "bar" /\ exitStatus' = exitStatus
          /\ codeHashes' = codeHashes /\ cstringHashes' = cstringHashes
    /\ (apc[g] = "bar" /\ apc'[g] # apc[g]) =>
          /\ progress' = progress + 1 /\ exitStatus' = exitStatus
          /\ codeHashes' = codeHashes /\ cstringHashes' = cstringHashes
          /\ IF g = Walker THEN folderPc' = "walk" /\ idx' = idx + 1
                           ELSE apc'[g] = "recv"
C9_UnparseableFileSkipped == [][C9_Step]_vars

\* a file that is no Mach-O was analysed, the tables are empty, the
\* counter advanced and the next file is being analysed
C9_Witness ==
  /\ Len(corpus) = 3 /\ Dispatched(corpus[2]) /\ corpus[2].bin = "nomacho"
  /\ finished[2] = 1 /\ progress = 1 /\ started[3] = 1
  /\ codeHashes = ZeroTable /\ cstringHashes = ZeroTable

\* C10: the process ends with a non-zero status exactly when no root path
\* was given, and then without a walk, a worker or a report.
C10_ExitStatus ==
  Exited =>
    /\ (exitStatus # "exit0") <=> ~input
    /\ ~input => (folderPc = "idle" /\ reports = <<>>
                  /\ \A w \in Workers : apc[w] = "off")

\* analyseFolder has made its last send: it is past both walks
PastWalk == folderPc \in {"returned", "join", "show1", "show2", "done", "finished"}
FolderOver == folderPc \in {"returned", "finished"}

\* C11 as stated: by the time analyseFolder is over, tasks was closed
\* exactly once, for every jobs >= 1 and on both paths.
C11_ClosedExactlyOnce == FolderOver => closes = 1

C11_Inv ==
  /\ closes <= 1
  /\ closed <=> closes = 1
  /\ closed => PastWalk
  /\ PastWalk => closes = (IF jobs > 1 \/ folderPc = "returned" THEN 1 ELSE 0)
C11_Step ==
  /\ closes' # closes =>
       /\ folderPc \in {"stop", "finish"} /\ folderPc' \in {"returned", "join"}
       /\ apc' = apc /\ sigPc' = sigPc
  /\ started' # started => ~closed /\ ~closed'

\* C11, amended: tasks is closed at most once, only by the walker and only
\* after its last send, never sent on once closed; it is closed exactly
\* once when jobs > 1 or the walk was stopped by the flag, and never when
\* jobs = 1 and the walk ran to its end.
C11_ClosedAtMostOnce == []C11_Inv /\ [][C11_Step]_vars

\* a pool run on the normal path closed the channel after sending a task
C11_Witness ==
  /\ jobs > 1 /\ folderPc = "join" /\ closes = 1
  /\ \E f \in FileIdx : started[f] = 1

WalkerSteps == folderPc' # folderPc \/ idx' # idx
PoolExited == \A w \in Workers : w <= jobs => apc[w] = "exited"

C12_Step ==
  /\ (folderPc = "walk" /\ AtEntry /\ ~corpus[idx].err /\ interrupted /\ WalkerSteps)
        => folderPc' = "stop" /\ idx' = idx /\ started' = started
  /\ (folderPc = "stop" /\ WalkerSteps) => folderPc' = "returned" /\ closed'
  /\ folderPc \in {"stop", "returned"} => started' = started
  /\ folderPc = "returned" => folderPc' = "returned"

\* C12: once the walker has seen the flag set at an entry it dispatches
\* nothing more, leaves the walk without passing the error report and
\* closes tasks; with jobs > 1 every started worker then receives
\* end-of-input and terminates, none waits forever (a worker also ends when
\* the process exits first).
C12_StopClosesQueue ==
  /\ [][C12_Step]_vars
  /\ (folderPc = "stop") ~> (Exited \/ (closed /\ (jobs = 1 \/ PoolExited)))

\* the walk was stopped, the queue closed and both workers have returned
\* while the process is still running
C12_Witness ==
  /\ jobs > 1 /\ folderPc = "returned" /\ closed /\ PoolExited /\ Running
  /\ \E f \in FileIdx : finished[f] = 1

\* C13: with jobs > 1 showResults runs only while no started worker is
\* still alive, on the normal path and on the interrupt path.
C13_ReportAfterPoolDrained ==
  (jobs > 1 /\ \E r \in Reporters : InShow(r)) =>
     \A w \in Workers : apc[w] \in {"off", "exited"}

InFlight == {f \in FileIdx : started[f] > finished[f]}
C14_Inv ==
  /\ Cardinality(InFlight) <= jobs
  /\ \A f \in InFlight : \E g \in Agents : InProgress(g) /\ afile[g] = f
  /\ \A g \in Agents : InProgress(g) => afile[g] \in InFlight
C14_Step ==
  (jobs > 1 /\ started' # started) =>
     /\ folderPc = "dispatch" /\ folderPc' = "walk"
     /\ \E w \in Workers : apc[w] = "recv" /\ apc'[w] = "open" /\ afile'[w] = idx

\* C14: tasks is an unbuffered handoff: a send completes only in the step
\* in which a waiting worker receives it, so no task is queued unclaimed,
\* at most jobs tasks are in flight, and the walker cannot send while no
\* worker is at its receive.
C14_UnbufferedHandoff ==
  /\ []C14_Inv
  /\ [][C14_Step]_vars
  /\ []((jobs > 1 /\ folderPc = "dispatch" /\ \A w \in Workers : apc[w] # "recv")
          => ~ENABLED Send)

\* both workers are inside analyseBinary and the walker is blocked at the
\* send of a third task
C14_Witness ==
  /\ jobs = 2 /\ folderPc = "dispatch" /\ Running
  /\ \A w \in Workers : w <= jobs => InProgress(w)
  /\ Cardinality(InFlight) = jobs

Candidates == {i \in 1 .. Len(corpus) : Dispatched(corpus[i])}
Returned == {f \in FileIdx : finished[f] >= 1}
AtBar == {g \in Agents : apc[g] = "bar"}
Counted == folderPc \notin {"idle", "count"}

\* C15: both walks select the same candidates; the progress counter is
\* advanced once per analyseBinary call that returned, whatever its outcome;
\* it never exceeds totalWork, and in an uninterrupted run it equals
\* totalWork when the report is printed.
C15_ProgressMatchesTotal ==
  /\ progress <= totalWork
  /\ progress + Cardinality(AtBar) = Cardinality(Returned)
  /\ Counted => totalWork = Cardinality(Candidates)
  /\ \A f \in FileIdx : started[f] >= 1 => f \in Candidates
  /\ (Uninterrupted /\ ShowCalls("folder")) =>
        /\ progress = totalWork
        /\ \A f \in Candidates : started[f] = 1 /\ finished[f] = 1

\* an uninterrupted run over two candidates, one of them not analysable,
\* has printed its report with the counter at 2 of 2
C15_Witness ==
  /\ Uninterrupted /\ folderPc = "finished" /\ Len(reports) = 1
  /\ progress = 2 /\ totalWork = 2
  /\ \E f \in Candidates : corpus[f].bin # "macho"

\* the flag is set exactly when the signal goroutine is past its assignment
C16_Inv == interrupted <=> sigPc \notin {"recv", "set"}

\* every change of the flag is the signal goroutine's assignment, to true
C16_Step ==
  /\ interrupted => interrupted'
  /\ interrupted' # interrupted =>
        /\ sigPc = "set" /\ sigPc' = "wait" /\ interrupted'
        /\ folderPc' = folderPc /\ idx' = idx /\ apc' = apc

\* C16: the interrupted flag is false at start, is written only by the signal
\* goroutine, only to true, and stays true; walker and workers never write it.
C16_FlagMonotonic == []C16_Inv /\ [][C16_Step]_vars

\* the walker has consumed the flag and returned, the flag is still set
C16_Witness == interrupted /\ folderPc = "returned" /\ sigPc = "wait"

ErrIdx == {i \in 1 .. Len(corpus) : corpus[i].err}
AtErrEntry == folderPc \in {"count", "walk"} /\ AtEntry /\ corpus[idx].err

\* an entry delivered with an error is never handed to analyseBinary, and
\* once the counting walk is over totalWork counts the other candidates only;
\* the report of a run that was not interrupted comes after every candidate,
\* those behind a failed entry included, was analysed
C17_Inv ==
  /\ \A f \in ErrIdx : started[f] = 0
  /\ Counted => totalWork = Cardinality({i \in 1 .. Len(corpus) :
                                IsCandidate(corpus[i]) /\ i \notin ErrIdx})
  /\ (Uninterrupted /\ ShowCalls("folder")) =>
        \A i \in 1 .. Len(corpus) :
           (IsCandidate(corpus[i]) /\ i \notin ErrIdx) => finished[i] = 1

\* the walker's step on a failed entry moves to the next entry of the same
\* walk and does nothing else
C17_Step ==
  (AtErrEntry /\ WalkerSteps) =>
     /\ idx' = idx + 1 /\ folderPc' = folderPc
     /\ totalWork' = totalWork /\ started' = started
     /\ exitStatus' = exitStatus

\* C17: a traversal error on an entry is non-fatal in both walks: the entry is
\* neither counted nor dispatched, the walk goes on with the next entry, every
\* other candidate is counted and dispatched, and the run, unless an interrupt
\* takes it over, goes on to print the report.
C17_TraversalErrorSkipped ==
  /\ []C17_Inv
  /\ [][C17_Step]_vars
  /\ (input /\ ErrIdx # {}) ~> (~Uninterrupted \/ ReportPrinted)

\* a failed entry lies before a candidate, both walks went past it, and the
\* uninterrupted run printed its report after analysing that candidate
C17_Witness ==
  /\ Uninterrupted /\ folderPc = "finished" /\ ReportPrinted
  /\ \E i \in ErrIdx : \E k \in Candidates : i < k /\ finished[k] = 1
  /\ totalWork = Cardinality(Candidates)

StoppedByFlag == folderPc \in {"stop", "returned"}
ReportBy(r) == \E k \in 1 .. Len(reports) : reports[k].by = r
Terminates == ~Exited /\ Exited'

\* on the stopped path analyseFolder has printed nothing and main is still
\* held by mainGroup; on the other path analyseFolder prints only after the
\* pool is gone, and releases main only after it has printed
C18_Inv ==
  /\ StoppedByFlag =>
        /\ ~ShowCalls("folder") /\ ~ReportBy("folder")
        /\ mainPc = "wait" /\ mainGroup = 1
        /\ interrupted
  /\ (ShowCalls("folder") /\ jobs > 1) => (closed /\ jobGroup = 0 /\ PoolExited)
  /\ folderPc \in {"done", "finished"} => ReportBy("folder")
  /\ (mainPc = "wait" /\ mainGroup = 0) <=> folderPc = "finished"

\* the stopped path is final for analyseFolder, and the only way the process
\* ends from it is os.Exit(0) of the signal goroutine that has printed; the
\* main goroutine ends the process only once analyseFolder released it
C18_Step ==
  /\ folderPc = "returned" => folderPc' = "returned"
  /\ (StoppedByFlag /\ Terminates) =>
        /\ sigPc = "exit" /\ ReportBy("sig") /\ exitStatus' = "exit0"
  /\ (Terminates /\ exitStatus' = "exit0" /\ sigPc # "exit") =>
        /\ folderPc = "finished" /\ ReportBy("folder")

\* C18: when the dispatch walk was stopped by the flag, analyseFolder returns
\* without printing and without mainGroup.Done, main stays blocked and the
\* process ends only by the signal goroutine's exit after its Wait and its
\* showResults; when the walk was not stopped by the flag, analyseFolder waits
\* for the pool, prints, and only then releases main.
C18_StoppedWalkLeavesExitToSignal == []C18_Inv /\ [][C18_Step]_vars

\* the walk was stopped, analyseFolder returned, and the process ended by the
\* signal goroutine's exit with main still waiting
C18_Witness ==
  /\ folderPc = "returned" /\ exitStatus = "exit0"
  /\ ReportBy("sig") /\ mainPc = "wait" /\ mainGroup = 1

\* the statements of analyseBinary in program order, "bar" being its return
CallOrder == <<"open", "parse", "text", "lockC", "incC", "cstring", "lockS",
               "incS", "bar">>
Rank(pc) == CHOOSE k \in 1 .. Len(CallOrder) : CallOrder[k] = pc
InCall(g) == apc[g] \in AnalysisPcs
BeforeStrings(f) ==
  \E g \in Agents : afile[g] = f /\ apc[g] \in {"open", "parse", "text", "lockC", "incC"}
InIncrement == {g \in Agents : apc[g] \in {"incC", "incS"}}

\* the mutex is held exactly by the one call that is inside an increment;
\* each table holds one count per call that got past the table's block with a
\* digest: a file whose code read failed is in neither table, a file with no
\* code region is in the strings table
C19_Inv ==
  /\ Cardinality(InIncrement) <= 1
  /\ mapMutex <=> InIncrement # {}
  /\ \A d \in Digests :
       /\ codeHashes[d] = Cardinality({f \in 1 .. Len(corpus) :
                             /\ started[f] = 1 /\ CodeOutcome(corpus[f]) = d
                             /\ ~BeforeStrings(f)})
       /\ cstringHashes[d] = Cardinality({f \in 1 .. Len(corpus) :
                             finished[f] = 1 /\ StrOutcome(corpus[f]) = d})

\* a call only moves forward through its statements, so it passes each
\* increment at most once and the code one first; a table changes only by
\* one, in the increment of a call holding the mutex; a failed code read
\* returns at once, an absent code region goes on to the strings block
C19_Step ==
  /\ \A g \in Agents :
       (InCall(g) /\ apc'[g] # apc[g]) =>
          /\ Rank(apc'[g]) > Rank(apc[g])
          /\ afile'[g] = afile[g]
          /\ apc[g] = "text" =>
               apc'[g] = CASE File(g).code = BadRead -> "bar"
                           [] File(g).code = NoSection -> "cstring"
                           [] OTHER -> "lockC"
  /\ codeHashes' # codeHashes =>
       \E g \in Agents :
          /\ apc[g] = "incC" /\ mapMutex /\ apc'[g] = "cstring"
          /\ codeHashes' = [codeHashes EXCEPT ![File(g).code] = @ + 1]
          /\ cstringHashes' = cstringHashes
  /\ cstringHashes' # cstringHashes =>
       \E g \in Agents :
          /\ apc[g] = "incS" /\ mapMutex /\ apc'[g] = "bar"
          /\ cstringHashes' = [cstringHashes EXCEPT ![File(g).str] = @ + 1]
          /\ codeHashes' = codeHashes

\* C19: within one analyseBinary call code comes first and strings second,
\* each increment is made under the mutex and a file adds at most one to each
\* table; a failed read of the code region ends the call at once, so its
\* strings are not counted, while an absent code region does not prevent the
\* strings from being counted.
C19_CodeThenStrings == []C19_Inv /\ [][C19_Step]_vars

\* both cases in one run: a file whose code read failed and a file without a
\* code region, each with a readable strings region, are done; only the
\* second is in the strings table
C19_Witness ==
  /\ \E f, h \in 1 .. Len(corpus) :
       /\ finished[f] = 1 /\ finished[h] = 1
       /\ corpus[f].bin = "macho" /\ corpus[f].code = BadRead /\ corpus[f].str = 1
       /\ corpus[h].bin = "macho" /\ corpus[h].code = NoSection /\ corpus[h].str = 1
  /\ cstringHashes[1] = 1 /\ codeHashes[1] = 0

====
